---- MODULE Spec2Model ----
(***************************************************************************)
(* A model of cozy, a terminal e-book reader:                              *)
(*   - the markup renderer (ebook/renderer.go) as operators over parsed    *)
(*     markup trees and character sequences;                               *)
(*   - the reading-position store (config progress data);                  *)
(*   - the reader view's navigation state machine (tui reader).            *)
(* Strings are sequences of one-character strings.  Styles are rendered    *)
(* under the Ascii colour profile: a style adds padding, border and        *)
(* alignment spaces but no escape sequences.                               *)
(***************************************************************************)
EXTENDS Integers, Sequences, FiniteSets, TLC

\* ------------------------------------------------------------------------
\* Characters and strings
\* ------------------------------------------------------------------------
NL == "\n"
SP == " "

IsSpace(c) == c = SP \/ c = NL

SetMin(S) == CHOOSE x \in S : \A y \in S : x <= y
SetMax(S) == CHOOSE x \in S : \A y \in S : x >= y

\* Go's builtin-shadowing helpers of the renderer
max(a, b) == IF a > b THEN a ELSE b

min(a, b) == IF a < b THEN a ELSE b

\* strings.Count(s, c)
Count(s, c) == Cardinality({i \in DOMAIN s : s[i] = c})

\* strings.TrimSpace
TrimSpace(s) ==
  LET keep == {i \in DOMAIN s : ~IsSpace(s[i])}
  IN  IF keep = {} THEN <<>> ELSE SubSeq(s, SetMin(keep), SetMax(keep))

\* strings.Split(s, "\n"): always at least one (possibly empty) line
RECURSIVE Split(_)
Split(s) ==
  LET nls == {i \in DOMAIN s : s[i] = NL}
  IN  IF nls = {} THEN <<s>>
      ELSE LET i == SetMin(nls)
           IN  <<SubSeq(s, 1, i - 1)>> \o Split(SubSeq(s, i + 1, Len(s)))

\* strings.Join(lines, sep)
RECURSIVE Join(_, _)
Join(lines, sep) ==
  IF lines = <<>> THEN <<>>
  ELSE IF Len(lines) = 1 THEN lines[1]
  ELSE lines[1] \o sep \o Join(Tail(lines), sep)

\* strings.Fields: the maximal runs of non-space characters
RECURSIVE Fields(_)
Fields(s) ==
  LET t == TrimSpace(s)
      sp == {i \in DOMAIN t : IsSpace(t[i])}
  IN  IF t = <<>> THEN <<>>
      ELSE IF sp = {} THEN <<t>>
      ELSE LET i == SetMin(sp)
           IN  <<SubSeq(t, 1, i - 1)>> \o Fields(SubSeq(t, i + 1, Len(t)))

\* strings.Repeat(s, n) for n >= 0 (a negative count panics: see the callers)
Repeat(s, n) ==
  IF n <= 0 \/ s = <<>> THEN <<>>
  ELSE [i \in 1..(n * Len(s)) |-> s[((i - 1) % Len(s)) + 1]]

\* ------------------------------------------------------------------------
\* wordwrap.String (muesli/reflow), KeepNewlines = true
\* ------------------------------------------------------------------------
wwAddWord(w) ==
  IF w.word = <<>> THEN w
  ELSE [w EXCEPT !.buf = w.buf \o w.space \o w.word,
                 !.lineLen = w.lineLen + Len(w.space) + Len(w.word),
                 !.space = <<>>, !.word = <<>>]

wwAddNewLine(w) ==
  [w EXCEPT !.buf = w.buf \o <<NL>>, !.lineLen = 0, !.space = <<>>]

wwWrite(w, c, limit) ==
  IF c = NL THEN
    LET w1 == IF w.word = <<>>
              THEN IF w.lineLen + Len(w.space) > limit
                   THEN [w EXCEPT !.lineLen = 0, !.space = <<>>]
                   ELSE [w EXCEPT !.buf = w.buf \o w.space, !.space = <<>>]
              ELSE w
    IN  wwAddNewLine(wwAddWord(w1))
  ELSE IF c = SP THEN
    LET w1 == wwAddWord(w)
    IN  [w1 EXCEPT !.space = w1.space \o <<c>>]
  ELSE
    LET w1 == [w EXCEPT !.word = w.word \o <<c>>]
    IN  IF w1.lineLen + Len(w1.space) + Len(w1.word) > limit
           /\ Len(w1.word) < limit
        THEN wwAddNewLine(w1)
        ELSE w1

RECURSIVE wwRun(_, _, _, _)
wwRun(w, s, i, limit) ==
  IF i > Len(s) THEN wwAddWord(w).buf
  ELSE wwRun(wwWrite(w, s[i], limit), s, i + 1, limit)

wordwrapString(s, limit) ==
  IF limit = 0 THEN s
  ELSE wwRun([buf |-> <<>>, word |-> <<>>, space |-> <<>>, lineLen |-> 0],
             s, 1, limit)

\* ------------------------------------------------------------------------
\* justifyText (ebook/renderer.go)
\* ------------------------------------------------------------------------
\* a character whose UTF-8 encoding has two bytes (an accented letter)
TwoByteChar == "E"

\* Go's len(string): the number of bytes
RECURSIVE len(_)
len(s) ==
  IF s = <<>> THEN 0 ELSE (IF Head(s) = TwoByteChar THEN 2 ELSE 1) + len(Tail(s))

\* int(float64(width) * 0.75): Go's conversion truncates toward zero
Trunc75(width) ==
  IF width >= 0 THEN (3 * width) \div 4 ELSE -((3 * (-width)) \div 4)

RECURSIVE SumLen(_)
SumLen(words) == IF words = <<>> THEN 0 ELSE len(Head(words)) + SumLen(Tail(words))

\* the loop that writes the words with spacesPerGap (+1 in the first
\* extraSpaces gaps) spaces between them
RECURSIVE justifiedLine(_, _, _, _)
justifiedLine(words, i, spacesPerGap, extraSpaces) ==
  IF i > Len(words) THEN <<>>
  ELSE words[i]
       \o (IF i < Len(words)
           THEN Repeat(<<SP>>, spacesPerGap)
                \o (IF i - 1 < extraSpaces THEN <<SP>> ELSE <<>>)
           ELSE <<>>)
       \o justifiedLine(words, i + 1, spacesPerGap, extraSpaces)

\* a faulty test that keeps short lines only
keepsShortLinesOnly(isLastLine, nLines, nWords, lineLen, width) ==
  lineLen < Trunc75(width)

\* the "don't justify" test of the loop
keepsLine(isLastLine, nLines, nWords, lineLen, width) ==
  isLastLine \/ nLines = 1 \/ nWords <= 1 \/ lineLen < Trunc75(width)

\* one iteration of the loop over the lines; isLastLine and nLines as in the code
justifyLine(rawLine, isLastLine, nLines, width) ==
  LET line == TrimSpace(rawLine)
      words == Fields(line)
      lineLen == len(line)
      wordLen == SumLen(words)
      totalSpaces == width - wordLen
      gaps == Len(words) - 1
  IN  IF line = <<>> THEN <<>>
      ELSE IF keepsLine(isLastLine, nLines, Len(words), lineLen, width)
      THEN line
      ELSE IF gaps <= 0 \/ totalSpaces < gaps THEN line
      ELSE justifiedLine(words, 1, totalSpaces \div gaps, totalSpaces % gaps)

\* a faulty justifyText that ends its result with a newline
justifyTextEndingLine(text, width) ==
  LET lines == Split(text)
  IN  Join([i \in 1..Len(lines) |->
              justifyLine(lines[i], i = Len(lines), Len(lines), width)],
           <<NL>>) \o <<NL>>

justifyText(text, width) ==
  LET lines == Split(text)
  IN  Join([i \in 1..Len(lines) |->
              justifyLine(lines[i], i = Len(lines), Len(lines), width)],
           <<NL>>)

\* ------------------------------------------------------------------------
\* lipgloss Style.Render under the Ascii profile: left/right padding on every
\* line, lines of a multi-line text padded to the widest, optional left border
\* ------------------------------------------------------------------------
styleRender(text, padLeft, padRight, border) ==
  LET lines == Split(text)
      padded == [i \in 1..Len(lines) |->
                   Repeat(<<SP>>, padLeft) \o lines[i] \o Repeat(<<SP>>, padRight)]
      widest == SetMax({Len(padded[i]) : i \in 1..Len(padded)})
      aligned == [i \in 1..Len(padded) |->
                    IF Len(padded) > 1
                    THEN padded[i] \o Repeat(<<SP>>, widest - Len(padded[i]))
                    ELSE padded[i]]
  IN  Join([i \in 1..Len(aligned) |-> border \o aligned[i]], <<NL>>)

\* ------------------------------------------------------------------------
\* Markup trees (the result of html.Parse) and the render context
\* ------------------------------------------------------------------------
TextNode(data) == [type |-> "text", tag |-> "", data |-> data, kids |-> <<>>]
Element(tag, kids) == [type |-> "elem", tag |-> tag, data |-> <<>>, kids |-> kids]

\* renderContext{}: the zero value the walk starts with
renderContext ==
  [inHeading |-> 0, inBlockquote |-> FALSE, inPre |-> FALSE, inCode |-> FALSE,
   inEmphasis |-> FALSE, inStrong |-> FALSE, listLevel |-> 0, inListItem |-> FALSE]

HeadingTags == {"h1", "h2", "h3", "h4", "h5", "h6"}

HeadingLevel(tag) ==
  CASE tag = "h1" -> 1 [] tag = "h2" -> 2 [] tag = "h3" -> 3
    [] tag = "h4" -> 4 [] tag = "h5" -> 5 [] tag = "h6" -> 6 [] OTHER -> 0

RuleChar == "="
BulletChar == "*"
BorderChar == "|"
HashChar == "#"

RuleMax == 80
DefaultWidth == 80
QuoteMinWidth == 40
QuoteBorderWidth == 4
PreMinWidth == 40
PrePaddingWidth == 2

\* the builder `out`, the recorded heading positions, and whether the walk
\* has hit a runtime panic (strings.Repeat with a negative count)
NewRenderState == [out |-> <<>>, heads |-> <<>>, panic |-> FALSE]

WriteString(st, s) == [st EXCEPT !.out = @ \o s]

\* ------------------------------------------------------------------------
\* Renderer.writeStyledText
\* ------------------------------------------------------------------------
writeBlockquote(st, text, effectiveWidth) ==
  LET wrappedText == wordwrapString(text, max(effectiveWidth - QuoteBorderWidth, QuoteMinWidth))
      lines == Split(wrappedText)
      piece(i) == IF TrimSpace(lines[i]) = <<>> THEN <<>>
                  ELSE styleRender(lines[i], 1, 0, <<BorderChar>>)
                       \o (IF i < Len(lines) THEN <<NL>> ELSE <<>>)
      all[i \in 0..Len(lines)] == IF i = 0 THEN <<>> ELSE all[i - 1] \o piece(i)
  IN  WriteString(st, all[Len(lines)])

writeStyledText(st, text0, ctx, width) ==
  LET effectiveWidth == IF width <= 0 THEN DefaultWidth ELSE width
      text1 == IF ctx.inHeading > 0
               THEN wordwrapString(Repeat(<<HashChar>>, ctx.inHeading) \o <<SP>> \o text0,
                                   effectiveWidth)
               ELSE text0
  IN  IF ctx.inBlockquote THEN writeBlockquote(st, text1, effectiveWidth)
      ELSE IF ctx.inCode THEN
        IF ctx.inPre
        THEN WriteString(st, styleRender(
               wordwrapString(text1, max(effectiveWidth - PrePaddingWidth, PreMinWidth)),
               1, 1, <<>>))
        ELSE WriteString(st, styleRender(text1, 1, 1, <<>>))
      ELSE
        LET text2 == wordwrapString(text1, effectiveWidth)
            text3 == IF ctx.inHeading = 0 /\ Len(TrimSpace(text2)) > 0
                     THEN justifyText(text2, effectiveWidth)
                     ELSE text2
        IN  WriteString(st, styleRender(text3, 0, 0, <<>>))

\* ------------------------------------------------------------------------
\* Renderer.renderNode / Renderer.renderElement
\* ------------------------------------------------------------------------
\* renderContext.clone followed by the element's changes to the copy
elementContext(tag, ctx) ==
  CASE tag \in HeadingTags -> [ctx EXCEPT !.inHeading = HeadingLevel(tag)]
    [] tag = "blockquote" -> [ctx EXCEPT !.inBlockquote = TRUE]
    [] tag = "pre" -> [ctx EXCEPT !.inPre = TRUE, !.inCode = TRUE]
    [] tag = "code" -> IF ~ctx.inPre THEN [ctx EXCEPT !.inCode = TRUE] ELSE ctx
    [] tag \in {"em", "i"} -> [ctx EXCEPT !.inEmphasis = TRUE]
    [] tag \in {"strong", "b"} -> [ctx EXCEPT !.inStrong = TRUE]
    [] tag \in {"ul", "ol"} -> [ctx EXCEPT !.listLevel = @ + 1]
    [] tag = "li" -> [ctx EXCEPT !.inListItem = TRUE]
    [] OTHER -> ctx

\* a faulty line number: the newlines of the text written so far, trimmed
headingLineTrimmed(out) == Count(TrimSpace(out), NL)

\* the line number recorded for an h2/h3: the newlines written so far
headingLine(out) == Count(out, NL)

\* a faulty condition that records an anchor for every heading level
recordsAnchorAnyHeading(tag) == tag \in HeadingTags

\* the condition under which a heading's position is recorded
recordsAnchor(tag) == tag = "h2" \/ tag = "h3"

\* what the first switch writes before the children are rendered
elementOpen(tag, st, ctx, width) ==
  CASE tag \in HeadingTags ->
         LET st1 == WriteString(st, <<NL, NL>>)
         IN  IF recordsAnchor(tag)
             THEN [st1 EXCEPT !.heads = Append(@, headingLine(st1.out))]
             ELSE st1
    [] tag = "p" -> IF ~ctx.inListItem THEN WriteString(st, <<NL, NL>>) ELSE st
    [] tag \in {"blockquote", "pre"} -> WriteString(st, <<NL, NL>>)
    [] tag = "br" -> WriteString(st, <<NL>>)
    [] tag = "hr" ->
         IF min(width, RuleMax) < 0 THEN [WriteString(st, <<NL, NL>>) EXCEPT !.panic = TRUE]
         ELSE WriteString(st, <<NL, NL>>
                              \o styleRender(Repeat(<<RuleChar>>, min(width, RuleMax)), 0, 0, <<>>)
                              \o <<NL, NL>>)
    [] tag \in {"ul", "ol"} -> WriteString(st, <<NL>>)
    [] tag = "li" ->
         IF ctx.listLevel - 1 < 0 THEN [st EXCEPT !.panic = TRUE]
         ELSE WriteString(st, <<NL>> \o Repeat(<<SP, SP>>, ctx.listLevel - 1)
                              \o <<BulletChar, SP>>)
    [] OTHER -> st

\* the post-element switch
elementClose(tag, st) ==
  IF tag \in HeadingTags \cup {"blockquote", "pre", "ul", "ol"}
  THEN WriteString(st, <<NL>>)
  ELSE st

\* a faulty renderElement that changes the caller's context instead of a clone
contextAfterShared(n, ctx) ==
  IF n.type = "elem" /\ n.tag \notin {"br", "hr"} THEN elementContext(n.tag, ctx) ELSE ctx

\* the caller's context once renderNode has returned: renderElement changed
\* its own clone only
contextAfter(n, ctx) == ctx

RECURSIVE renderNode(_, _, _, _)
RECURSIVE renderChildren(_, _, _, _, _)

renderElement(n, st, ctx, width) ==
  LET close(done) == IF done.panic THEN done ELSE elementClose(n.tag, done)
      children(opened) ==
        IF opened.panic \/ n.tag \in {"br", "hr"} THEN opened
        ELSE close(renderChildren(n.kids, 1, opened, elementContext(n.tag, ctx), width))
  IN  children(elementOpen(n.tag, st, ctx, width))

renderNode(n, st, ctx, width) ==
  IF st.panic THEN st
  ELSE CASE n.type = "text" ->
              LET text == IF ~ctx.inPre THEN TrimSpace(n.data) ELSE n.data
              IN  IF text # <<>> THEN writeStyledText(st, text, ctx, width) ELSE st
         [] n.type = "elem" -> renderElement(n, st, ctx, width)
         [] OTHER -> st

\* the loop over FirstChild .. NextSibling
renderChildren(kids, i, st, ctx, width) ==
  IF i > Len(kids) \/ st.panic THEN st
  ELSE renderChildren(kids, i + 1, renderNode(kids[i], st, ctx, width),
                      contextAfter(kids[i], ctx), width)

\* ------------------------------------------------------------------------
\* The markup source of a tree, and htmlToText / stripHTMLTags (ebook/epub.go)
\* ------------------------------------------------------------------------
LT == "<"
GT == ">"
SLASH == "/"

RECURSIVE HtmlSource(_)
RECURSIVE HtmlSourceAll(_, _)

\* the source text html.Parse read the node from; br and hr are void elements
HtmlSource(n) ==
  IF n.type = "text" THEN n.data
  ELSE IF n.tag \in {"br", "hr"} THEN <<LT, n.tag, GT>>
  ELSE <<LT, n.tag, GT>> \o HtmlSourceAll(n.kids, 1) \o <<LT, SLASH, n.tag, GT>>

HtmlSourceAll(kids, i) ==
  IF i > Len(kids) THEN <<>> ELSE HtmlSource(kids[i]) \o HtmlSourceAll(kids, i + 1)

\* blockElements: the tags after which htmlToText adds a line break
blockElements ==
  {<<LT, SLASH, t, GT>> : t \in {"p", "div", "h1", "h2", "h3", "h4", "h5", "h6", "li"}}
    \cup {<<LT, "br", GT>>, <<LT, "br", SLASH, GT>>}

\* the strings.ReplaceAll(result, elem, elem+"\n") passes
addLineBreaks(html) ==
  LET endsBlock(i) == \E e \in blockElements :
                         /\ i >= Len(e)
                         /\ SubSeq(html, i - Len(e) + 1, i) = e
      acc[i \in 0..Len(html)] ==
        IF i = 0 THEN <<>>
        ELSE acc[i - 1] \o <<html[i]>> \o (IF endsBlock(i) THEN <<NL>> ELSE <<>>)
  IN  acc[Len(html)]

stripHTMLTags(html) ==
  LET step[i \in 0..Len(html)] ==
        IF i = 0 THEN [inTag |-> FALSE, result |-> <<>>]
        ELSE LET prev == step[i - 1]
             IN  IF html[i] = LT THEN [prev EXCEPT !.inTag = TRUE]
                 ELSE IF html[i] = GT THEN [prev EXCEPT !.inTag = FALSE]
                 ELSE IF ~prev.inTag THEN [prev EXCEPT !.result = @ \o <<html[i]>>]
                 ELSE prev
  IN  step[Len(html)].result

htmlToText(html) ==
  LET lines == Split(stripHTMLTags(addLineBreaks(html)))
      cleaned[i \in 0..Len(lines)] ==
        IF i = 0 THEN <<>>
        ELSE IF TrimSpace(lines[i]) # <<>> THEN Append(cleaned[i - 1], TrimSpace(lines[i]))
        ELSE cleaned[i - 1]
  IN  Join(cleaned[Len(lines)], <<NL, NL>>)

\* ------------------------------------------------------------------------
\* Renderer.RenderWithHeadings and RenderToStyledTextWithHeadings.
\* A document is the sequence of the nodes of its body; html.Parse of an
\* in-memory string returns no error.  `panic` tells that the call did not
\* return.
\* ------------------------------------------------------------------------
RenderWithHeadings(doc, width) ==
  LET st == renderChildren(doc, 1, NewRenderState, renderContext, width)
  IN  [Text |-> TrimSpace(st.out), HeadingPositions |-> st.heads, panic |-> st.panic]

\* NewRenderer(theme, width)
NewRenderer(width) == [width |-> width, headingPositions |-> << >>]

\* a faulty RenderWithHeadings that does not reset r.headingPositions
RendererRenderWithHeadingsNoReset(r, doc) ==
  LET result(st) ==
        [renderer |-> [r EXCEPT !.headingPositions = st.heads],
         Text |-> TrimSpace(st.out), HeadingPositions |-> st.heads, panic |-> st.panic]
  IN  result(renderChildren(doc, 1, [NewRenderState EXCEPT !.heads = r.headingPositions],
                            renderContext, r.width))

\* Renderer.RenderWithHeadings on an instance r: the instance afterwards and
\* the RenderResult
RendererRenderWithHeadings(r, doc) ==
  LET result(st) ==
        [renderer |-> [r EXCEPT !.headingPositions = st.heads],
         Text |-> TrimSpace(st.out), HeadingPositions |-> st.heads, panic |-> st.panic]
  IN  result(renderChildren(doc, 1, NewRenderState, renderContext, r.width))

\* Renderer.Render on an instance r: r.headingPositions is not reset, the
\* walk appends to it, and the text alone is returned
RendererRender(r, doc) ==
  LET result(st) ==
        [renderer |-> [r EXCEPT !.headingPositions = st.heads],
         Text |-> TrimSpace(st.out), HeadingPositions |-> << >>, panic |-> st.panic]
  IN  result(renderChildren(doc, 1, [NewRenderState EXCEPT !.heads = r.headingPositions],
                            renderContext, r.width))

\* a faulty fallback that keeps the anchors of the structured render
RenderToStyledTextKeepingAnchors(doc, width) ==
  LET checked(result) ==
        IF result.panic THEN [Text |-> <<>>, HeadingPositions |-> <<>>, panic |-> TRUE]
        ELSE IF TrimSpace(result.Text) = <<>>
        THEN [Text |-> htmlToText(HtmlSourceAll(doc, 1)),
              HeadingPositions |-> result.HeadingPositions, panic |-> FALSE]
        ELSE result
  IN  checked(RenderWithHeadings(doc, width))

RenderToStyledTextWithHeadings(doc, width) ==
  LET checked(result) ==
        IF result.panic THEN [Text |-> <<>>, HeadingPositions |-> <<>>, panic |-> TRUE]
        ELSE IF TrimSpace(result.Text) = <<>>
        THEN [Text |-> htmlToText(HtmlSourceAll(doc, 1)), HeadingPositions |-> <<>>,
              panic |-> FALSE]
        ELSE result
  IN  checked(RenderWithHeadings(doc, width))

\* the number of lines a text has when displayed: strings.Split(text, "\n")
LineCount(text) == Len(Split(text))

\* ------------------------------------------------------------------------
\* Reading-position store (config: BookProgress, ProgressData)
\* ------------------------------------------------------------------------
\* A ProgressData is its Books map: a function from the book paths that have
\* a record to BookProgress records.  Finished is the field the library view
\* reads and toggles.
EmptyProgress == [k \in {} |-> 0]

HasKey(p, k) == k \in DOMAIN p

\* ProgressData.GetBookProgress: (progress, exists)
GetBookProgress(p, bookPath) ==
  IF HasKey(p, bookPath)
  THEN [progress |-> p[bookPath], exists |-> TRUE]
  ELSE [progress |-> [BookPath |-> "", CurrentChapter |-> 0, ScrollOffset |-> 0,
                      Finished |-> FALSE],
        exists |-> FALSE]

\* ProgressData.SetBookProgress: the record is built anew from the three
\* arguments; a field the literal does not name gets its zero value
SetBookProgress(p, bookPath, chapter, offset) ==
  [k \in DOMAIN p \cup {bookPath} |->
     IF k = bookPath
     THEN [BookPath |-> bookPath, CurrentChapter |-> chapter, ScrollOffset |-> offset,
           Finished |-> FALSE]
     ELSE p[k]]

\* ProgressData.SetBookFinished: sets the flag of the book's record, creating
\* the record at the start of the book when there is none
SetBookFinished(p, bookPath, finished) ==
  [k \in DOMAIN p \cup {bookPath} |->
     IF k = bookPath
     THEN IF HasKey(p, bookPath)
          THEN [p[bookPath] EXCEPT !.Finished = finished]
          ELSE [BookPath |-> bookPath, CurrentChapter |-> 0, ScrollOffset |-> 0,
                Finished |-> finished]
     ELSE p[k]]

\* progress.json: absent, or the JSON object {"books": {key: {...}, ...}},
\* kept as the set of its members
NoFile == [exists |-> FALSE, books |-> {}]

\* config.SaveProgress: json.MarshalIndent and os.WriteFile
SaveProgress(p) ==
  [exists |-> TRUE,
   books |-> {[key |-> k,
               book_path |-> p[k].BookPath,
               current_chapter |-> p[k].CurrentChapter,
               scroll_offset |-> p[k].ScrollOffset,
               finished |-> p[k].Finished] : k \in DOMAIN p}]

\* config.LoadProgress: an absent file is the empty progress; otherwise
\* json.Unmarshal rebuilds the map from the members
LoadProgress(f) ==
  IF ~f.exists THEN EmptyProgress
  ELSE LET keys == {m.key : m \in f.books}
           member(k) == CHOOSE m \in f.books : m.key = k
       IN  [k \in keys |->
              [BookPath |-> member(k).book_path,
               CurrentChapter |-> member(k).current_chapter,
               ScrollOffset |-> member(k).scroll_offset,
               Finished |-> member(k).finished]]

\* bounds of the explored inputs
NarrowWidth == 3
WideWidth == 20
MaxViewHeight == 2
MaxStoredChapter == 3
MaxStoredOffset == 2
MaxOpens == 2
MaxKids == 1

\* ------------------------------------------------------------------------
\* Books (ebook.Book) that ebook.Open returns for the files of the library
\* ------------------------------------------------------------------------
FormatEPUB == "epub"
FormatText == "txt"

X1 == <<"x">>
X2 == <<"x", "x", SP, "x">>

\* an EPUB read through the spine: three chapters
ChaptersA ==
  << << Element("h2", <<TextNode(X1)>>), Element("p", <<TextNode(X1)>>),
        Element("p", <<TextNode(X1)>>) >>,
     << Element("div", <<TextNode(X2)>>), Element("h2", <<TextNode(X1)>>),
        Element("h3", <<TextNode(X1)>>) >>,
     << Element("p", <<TextNode(X1)>>) >> >>

\* a plain text file: TextReader.Read makes one chapter of the whole file
ChaptersT == << <<"x", SP, "x", "x", NL, "x">> >>

PathA == "a.epub"
PathE == "e.epub"
PathT == "t.txt"
NoBook == ""

BookPaths == {PathA, PathE, PathT}

\* ebook.Open(path).  e.epub has no container.xml and no HTML file longer
\* than 100 bytes: EPUBReader.readFallback returns it with no chapters.
Open(path) ==
  CASE path = PathA -> [Path |-> path, Format |-> FormatEPUB, Chapters |-> ChaptersA]
    [] path = PathE -> [Path |-> path, Format |-> FormatEPUB, Chapters |-> << >>]
    [] path = PathT -> [Path |-> path, Format |-> FormatText, Chapters |-> ChaptersT]

\* Book.ChapterCount
ChapterCount(path) == Len(Open(path).Chapters)

\* Book.GetChapter: nil outside 0 .. len-1
HasChapter(path, index) == ~(index < 0 \/ index >= ChapterCount(path))

GetChapter(path, index) == Open(path).Chapters[index + 1]

\* ------------------------------------------------------------------------
\* viewport.Model (bubbles): Width, Height, YOffset and the content lines
\* ------------------------------------------------------------------------
NewViewport == [Width |-> 0, Height |-> 0, YOffset |-> 0, lines |-> << >>]

clamp(v, low, high) ==
  LET lo == IF high < low THEN high ELSE low
      hi == IF high < low THEN low ELSE high
  IN  min(hi, max(lo, v))

maxYOffset(vp) == max(0, Len(vp.lines) - vp.Height)

SetYOffset(vp, n) == [vp EXCEPT !.YOffset = clamp(n, 0, maxYOffset(vp))]

GotoTop(vp) == SetYOffset(vp, 0)

GotoBottom(vp) == SetYOffset(vp, maxYOffset(vp))

SetContent(vp, text) ==
  LET vp1 == [vp EXCEPT !.lines = Split(text)]
  IN  IF vp1.YOffset > Len(vp1.lines) - 1 THEN GotoBottom(vp1) ELSE vp1

AtBottom(vp) == vp.YOffset >= maxYOffset(vp)

HalfViewDown(vp) ==
  IF AtBottom(vp) THEN vp ELSE SetYOffset(vp, vp.YOffset + vp.Height \div 2)

HalfViewUp(vp) ==
  IF vp.YOffset <= 0 THEN vp ELSE SetYOffset(vp, vp.YOffset - vp.Height \div 2)

\* viewport.LineDown(n) / LineUp(n) / ViewDown(), reached through
\* viewport.Update by the keys the reader does not handle itself
LineDown(vp, n) ==
  IF AtBottom(vp) \/ n = 0 THEN vp ELSE SetYOffset(vp, vp.YOffset + n)

LineUp(vp, n) ==
  IF vp.YOffset <= 0 \/ n = 0 THEN vp ELSE SetYOffset(vp, vp.YOffset - n)

ViewDown(vp) ==
  IF AtBottom(vp) THEN vp ELSE SetYOffset(vp, vp.YOffset + vp.Height)

\* ------------------------------------------------------------------------
\* ReaderModel (tui reader view)
\* ------------------------------------------------------------------------
MarginLeft == 4
MarginRight == 4
HeaderFooterHeight == 6

\* NewReaderModel: no book, an empty viewport, the progress loaded from disk
NewReaderModel(f) ==
  [book |-> NoBook, viewport |-> NewViewport, currentChapter |-> 0,
   headingPositions |-> << >>, progress |-> LoadProgress(f),
   width |-> 0, height |-> 0]

\* NewLibraryModel: an empty list, its own copy of the progress loaded from
\* disk, no BooksLoadedMsg under way.  items maps a listed book to the
\* finished flag its list item shows.
NewLibraryModel(f) ==
  [progress |-> LoadProgress(f), items |-> [k \in {} |-> FALSE], loading |-> 0]

\* LibraryModel.Update, BooksLoadedMsg: the list items are rebuilt, each with
\* the finished flag its book has in the library's progress data now
booksLoaded(lib) ==
  [lib EXCEPT !.items = [k \in BookPaths |-> HasKey(lib.progress, k) /\ lib.progress[k].Finished],
              !.loading = @ - 1]

\* a faulty toggle that inverts the flag of the progress data
toggleFinishedOfRecord(lib, path) ==
  [lib EXCEPT !.progress = SetBookFinished(@, path,
                             ~(HasKey(lib.progress, path) /\ lib.progress[path].Finished)),
              !.loading = @ + 1]

\* LibraryModel.Update, key "f" on the list item of path: the flag is set to
\* the opposite of what the item shows, and loadBooks is started
toggleFinished(lib, path) ==
  [lib EXCEPT !.progress = SetBookFinished(@, path, ~lib.items[path]),
              !.loading = @ + 1]

\* the renders of the library's EPUB chapters at the widths a viewport can
\* have, computed once
RenderWidths == {NarrowWidth, WideWidth, DefaultWidth}

EpubChapters == {ChaptersA[i] : i \in DOMAIN ChaptersA}

RenderCache ==
  [c \in EpubChapters, w \in RenderWidths |-> RenderToStyledTextWithHeadings(c, w)]

renderChapter(chapter, renderWidth) == RenderCache[chapter, renderWidth]

\* ReaderModel.updateViewport
updateViewport(m) ==
  IF m.book = NoBook THEN m
  ELSE IF ~HasChapter(m.book, m.currentChapter) THEN m
  ELSE
    LET chapter == GetChapter(m.book, m.currentChapter)
        renderWidth == IF m.viewport.Width <= 0 THEN DefaultWidth ELSE m.viewport.Width
        show(renderedContent, positions) ==
          [m EXCEPT !.headingPositions = positions,
                    !.viewport = GotoTop(SetContent(m.viewport, renderedContent))]
        showResult(renderResult) == show(renderResult.Text, renderResult.HeadingPositions)
    IN  IF Open(m.book).Format = FormatEPUB
        THEN showResult(renderChapter(chapter, renderWidth))
        ELSE show(wordwrapString(chapter, renderWidth), << >>)

\* a faulty LoadBook that trusts the stored chapter index
LoadBookUnchecked(m, path) ==
  LET saved == GetBookProgress(m.progress, path)
      chapter == IF saved.exists THEN saved.progress.CurrentChapter ELSE 0
      restore(m2) ==
        IF saved.exists
        THEN [m2 EXCEPT !.viewport = SetYOffset(@, saved.progress.ScrollOffset)]
        ELSE m2
  IN  restore(updateViewport([m EXCEPT !.book = path, !.currentChapter = chapter]))

\* ReaderModel.LoadBook
LoadBook(m, path) ==
  LET saved == GetBookProgress(m.progress, path)
      chapter == IF ~saved.exists THEN 0
                 ELSE IF saved.progress.CurrentChapter >= ChapterCount(path) THEN 0
                 ELSE saved.progress.CurrentChapter
      restore(m2) ==
        IF saved.exists
        THEN [m2 EXCEPT !.viewport = SetYOffset(@, saved.progress.ScrollOffset)]
        ELSE m2
  IN  restore(updateViewport([m EXCEPT !.book = path, !.currentChapter = chapter]))

\* ReaderModel.SetSize
SetSize(m, w, h) ==
  updateViewport([m EXCEPT !.width = w, !.height = h,
                           !.viewport = [m.viewport EXCEPT
                                           !.Width = w - MarginLeft - MarginRight,
                                           !.Height = h - HeaderFooterHeight]])

\* a faulty SaveProgress that writes the progress without the reader's position
savedProgressWithoutPosition(m) == m.progress

\* ReaderModel.SaveProgress: the in-memory progress after SetBookProgress
\* (config.SaveProgress then writes it to disk)
savedProgress(m) ==
  IF m.book # NoBook
  THEN SetBookProgress(m.progress, m.book, m.currentChapter, m.viewport.YOffset)
  ELSE m.progress

\* a faulty NextChapter that wraps from the last chapter to the first
nextChapterWrapping(m) ==
  IF m.currentChapter < ChapterCount(m.book) - 1
  THEN updateViewport([m EXCEPT !.currentChapter = @ + 1])
  ELSE updateViewport([m EXCEPT !.currentChapter = 0])

\* ReaderModel.Update, key NextChapter
nextChapter(m) ==
  IF m.currentChapter < ChapterCount(m.book) - 1
  THEN updateViewport([m EXCEPT !.currentChapter = @ + 1])
  ELSE m

\* ReaderModel.Update, key PrevChapter
prevChapter(m) ==
  IF m.currentChapter > 0
  THEN updateViewport([m EXCEPT !.currentChapter = @ - 1])
  ELSE m

\* the forward scan of NextHeading: the first heading after currentLine, or -1
nextHeadingLine(positions, currentLine) ==
  LET after == {i \in DOMAIN positions : positions[i] > currentLine}
  IN  IF after = {} THEN -1 ELSE positions[SetMin(after)]

\* the backward scan of PrevHeading: the last heading before currentLine, or -1
prevHeadingLine(positions, currentLine) ==
  LET before == {i \in DOMAIN positions : positions[i] < currentLine}
  IN  IF before = {} THEN -1 ELSE positions[SetMax(before)]

\* a faulty NextHeading that enters the next chapter without rendering it
nextHeadingKeepsView(m) ==
  LET line == nextHeadingLine(m.headingPositions, m.viewport.YOffset)
  IN  IF line >= 0 THEN [m EXCEPT !.viewport = SetYOffset(@, line)]
      ELSE IF m.currentChapter < ChapterCount(m.book) - 1
      THEN [m EXCEPT !.currentChapter = @ + 1]
      ELSE m

\* ReaderModel.Update, key NextHeading
nextHeading(m) ==
  LET line == nextHeadingLine(m.headingPositions, m.viewport.YOffset)
  IN  IF line >= 0 THEN [m EXCEPT !.viewport = SetYOffset(@, line)]
      ELSE IF m.currentChapter < ChapterCount(m.book) - 1
      THEN updateViewport([m EXCEPT !.currentChapter = @ + 1])
      ELSE m

\* a faulty PrevHeading that enters the previous chapter at its top
prevHeadingToTop(m) ==
  LET line == prevHeadingLine(m.headingPositions, m.viewport.YOffset)
  IN  IF line >= 0 THEN [m EXCEPT !.viewport = SetYOffset(@, line)]
      ELSE IF m.currentChapter > 0
      THEN updateViewport([m EXCEPT !.currentChapter = @ - 1])
      ELSE m

\* ReaderModel.Update, key PrevHeading
prevHeading(m) ==
  LET line == prevHeadingLine(m.headingPositions, m.viewport.YOffset)
  IN  IF line >= 0 THEN [m EXCEPT !.viewport = SetYOffset(@, line)]
      ELSE IF m.currentChapter > 0
      THEN LET toLastHeading(m1) ==
                 IF Len(m1.headingPositions) > 0
                 THEN [m1 EXCEPT !.viewport =
                         SetYOffset(@, m1.headingPositions[Len(m1.headingPositions)])]
                 ELSE m1
           IN  toLastHeading(updateViewport([m EXCEPT !.currentChapter = @ - 1]))
      ELSE m

\* ReaderModel.Update, key FirstChapter
firstChapter(m) == updateViewport([m EXCEPT !.currentChapter = 0])

\* ReaderModel.Update, key LastChapter
lastChapter(m) == updateViewport([m EXCEPT !.currentChapter = ChapterCount(m.book) - 1])

\* ReaderModel.Update, key HalfPageDown
halfPageDown(m) == [m EXCEPT !.viewport = HalfViewDown(@)]

\* ReaderModel.Update, key HalfPageUp
halfPageUp(m) == [m EXCEPT !.viewport = HalfViewUp(@)]

\* ReaderModel.Update, keys ScrollDown "down", "j": no case of the reader's
\* switch takes them, the viewport scrolls one line
scrollDown(m) == [m EXCEPT !.viewport = LineDown(@, 1)]

\* ReaderModel.Update, keys ScrollUp "up", "k"
scrollUp(m) == [m EXCEPT !.viewport = LineUp(@, 1)]

\* ReaderModel.Update, key ScrollDown " ": the viewport's page-down key
pageDown(m) == [m EXCEPT !.viewport = ViewDown(@)]

\* ------------------------------------------------------------------------
\* The program: tui.Model with its reader view, and progress.json on disk
\* ------------------------------------------------------------------------
VARIABLES
  reader,       \* the ReaderModel
  file,         \* progress.json
  currentView,  \* Model.currentView
  running,      \* FALSE once tea.Quit was returned
  opened,       \* how many books the session has opened so far
  markup,       \* the renderer called on its own: the parsed markup,
  lineWidth,    \*   the width it is given,
  rendered,     \*   and what the call returned
  paragraph,    \* justifyText called on its own: the wrapped text it is given
  justified,    \*   and what the call returned
  renderer,     \* a Renderer instance that is used for several calls
  library       \* the LibraryModel

vars == <<reader, file, currentView, running, opened, markup, lineWidth, rendered,
          paragraph, justified, renderer, library>>

ViewLibrary == "library"
ViewReader == "reader"

WindowWidths == {MarginLeft + MarginRight + NarrowWidth, MarginLeft + MarginRight + WideWidth}
WindowHeights == {HeaderFooterHeight + h : h \in 1..MaxViewHeight}

\* what an earlier session can have left in progress.json: nothing, or the
\* record of one book, saved when the book may have had other chapters
InitialFiles ==
  {NoFile}
  \cup {SaveProgress(SetBookProgress(EmptyProgress, PathA, c, MaxStoredOffset)) :
          c \in -1..MaxStoredChapter}
  \cup {SaveProgress(SetBookProgress(EmptyProgress, PathE, 0, 0))}

NoRender == [called |-> FALSE, Text |-> << >>, HeadingPositions |-> << >>, panic |-> FALSE]

\* justifyText not called
NoJustified == [called |-> FALSE, Text |-> << >>]

RenderIdle ==
  /\ markup = << >> /\ lineWidth = 0 /\ rendered = NoRender
  /\ paragraph = << >> /\ justified = NoJustified
  /\ renderer = NewRenderer(0)

Init ==
  /\ file \in InitialFiles
  /\ reader = NewReaderModel(file)
  /\ library = NewLibraryModel(file)
  /\ currentView = ViewLibrary
  /\ running = TRUE
  /\ opened = 0
  /\ RenderIdle

\* the reader view gets the message: Model.Update routes it to
\* ReaderModel.Update, which handles it when a book is loaded
InReader == running /\ currentView = ViewReader /\ reader.book # NoBook

\* a key the reader handles by changing the ReaderModel only
\* Model.Update, tea.WindowSizeMsg
WindowSizeMsg ==
  /\ running
  /\ \E w \in WindowWidths, h \in WindowHeights : reader' = SetSize(reader, w, h)
  /\ UNCHANGED <<file, currentView, running, opened, markup, lineWidth, rendered, paragraph, justified, renderer, library>>

\* LibraryModel.Update "enter", openBook, and Model.Update BookSelectedMsg
BookSelectedMsg ==
  /\ running /\ currentView = ViewLibrary /\ opened < MaxOpens
  /\ \E path \in BookPaths : reader' = LoadBook(reader, path)
  /\ currentView' = ViewReader
  /\ opened' = opened + 1
  /\ UNCHANGED <<file, running, markup, lineWidth, rendered, paragraph, justified, renderer, library>>

\* ReaderModel.Update, key NextChapter
KeyNextChapter ==
  /\ InReader
  /\ reader' = nextChapter(reader)
  /\ UNCHANGED <<file, currentView, running, opened, markup, lineWidth, rendered, paragraph, justified, renderer, library>>

\* ReaderModel.Update, key PrevChapter
KeyPrevChapter ==
  /\ InReader
  /\ reader' = prevChapter(reader)
  /\ UNCHANGED <<file, currentView, running, opened, markup, lineWidth, rendered, paragraph, justified, renderer, library>>

\* ReaderModel.Update, key NextHeading
KeyNextHeading ==
  /\ InReader
  /\ reader' = nextHeading(reader)
  /\ UNCHANGED <<file, currentView, running, opened, markup, lineWidth, rendered, paragraph, justified, renderer, library>>

\* ReaderModel.Update, key PrevHeading
KeyPrevHeading ==
  /\ InReader
  /\ reader' = prevHeading(reader)
  /\ UNCHANGED <<file, currentView, running, opened, markup, lineWidth, rendered, paragraph, justified, renderer, library>>

\* ReaderModel.Update, key FirstChapter
KeyFirstChapter ==
  /\ InReader
  /\ reader' = firstChapter(reader)
  /\ UNCHANGED <<file, currentView, running, opened, markup, lineWidth, rendered, paragraph, justified, renderer, library>>

\* ReaderModel.Update, key LastChapter
KeyLastChapter ==
  /\ InReader
  /\ reader' = lastChapter(reader)
  /\ UNCHANGED <<file, currentView, running, opened, markup, lineWidth, rendered, paragraph, justified, renderer, library>>

\* ReaderModel.Update, key HalfPageDown
KeyHalfPageDown ==
  /\ InReader
  /\ reader' = halfPageDown(reader)
  /\ UNCHANGED <<file, currentView, running, opened, markup, lineWidth, rendered, paragraph, justified, renderer, library>>

\* ReaderModel.Update, key HalfPageUp
KeyHalfPageUp ==
  /\ InReader
  /\ reader' = halfPageUp(reader)
  /\ UNCHANGED <<file, currentView, running, opened, markup, lineWidth, rendered, paragraph, justified, renderer, library>>

\* ReaderModel.Update, keys "down" / "j", passed on to viewport.Update
KeyScrollDown ==
  /\ InReader
  /\ reader' = scrollDown(reader)
  /\ UNCHANGED <<file, currentView, running, opened, markup, lineWidth, rendered, paragraph, justified, renderer, library>>

\* ReaderModel.Update, keys "up" / "k", passed on to viewport.Update
KeyScrollUp ==
  /\ InReader
  /\ reader' = scrollUp(reader)
  /\ UNCHANGED <<file, currentView, running, opened, markup, lineWidth, rendered, paragraph, justified, renderer, library>>

\* ReaderModel.Update, key " ", passed on to viewport.Update
KeyPageDown ==
  /\ InReader
  /\ reader' = pageDown(reader)
  /\ UNCHANGED <<file, currentView, running, opened, markup, lineWidth, rendered, paragraph, justified, renderer, library>>

\* ReaderModel.Update, key Back: SaveProgress; the BackToLibraryMsg it sends
\* is the next message Model.Update handles
KeyBack ==
  /\ InReader
  /\ reader' = [reader EXCEPT !.progress = savedProgress(reader)]
  /\ file' = SaveProgress(savedProgress(reader))
  /\ currentView' = ViewLibrary
  /\ UNCHANGED <<running, opened, markup, lineWidth, rendered, paragraph, justified, renderer, library>>

\* Model.Update, "q" / "ctrl+c": saves when the reader is shown, then quits
KeyQuit ==
  /\ running
  /\ IF currentView = ViewReader
     THEN /\ reader' = [reader EXCEPT !.progress = savedProgress(reader)]
          /\ file' = IF reader.book # NoBook THEN SaveProgress(savedProgress(reader)) ELSE file
     ELSE UNCHANGED <<reader, file>>
  /\ running' = FALSE
  /\ UNCHANGED <<currentView, opened, markup, lineWidth, rendered, paragraph, justified, renderer, library>>

Next ==
  \/ WindowSizeMsg
  \/ BookSelectedMsg
  \/ KeyNextChapter
  \/ KeyPrevChapter
  \/ KeyNextHeading
  \/ KeyPrevHeading
  \/ KeyFirstChapter
  \/ KeyLastChapter
  \/ KeyHalfPageDown
  \/ KeyHalfPageUp
  \/ KeyScrollDown
  \/ KeyScrollUp
  \/ KeyPageDown
  \/ KeyBack
  \/ KeyQuit

Spec == Init /\ [][Next]_vars

\* ------------------------------------------------------------------------
\* The renderer called on its own: RenderToStyledTextWithHeadings applied to
\* a parsed markup tree and a width
\* ------------------------------------------------------------------------
SeqsUpTo(S, n) == UNION {[1..k -> S] : k \in 0..n}

Texts == {X1, <<SP>>, X2}

Leaves == {TextNode(t) : t \in Texts} \cup {Element("br", << >>), Element("hr", << >>)}

InnerTags == {"h1", "h2", "h3", "h4", "p", "blockquote", "pre", "code", "em", "strong",
              "ul", "li", "div"}

Level1 == Leaves \cup {Element(t, k) : t \in InnerTags, k \in SeqsUpTo(Leaves, MaxKids)}

Level2 == {Element(t, <<c>>) : t \in {"ul", "li", "div"}, c \in Level1}

FirstNodes ==
  {TextNode(X1), Element("p", <<TextNode(X1)>>), Element("h2", << >>),
   Element("h2", <<TextNode(X1)>>), Element("h3", <<TextNode(X2)>>)}

Docs ==
  {<<a>> : a \in Level1 \cup Level2} \cup {<<a, b>> : a \in FirstNodes, b \in Level1}

Widths == {-1, 0, NarrowWidth, DefaultWidth}

InitRender ==
  /\ file = NoFile
  /\ reader = NewReaderModel(file)
  /\ library = NewLibraryModel(file)
  /\ currentView = ViewLibrary
  /\ running = TRUE
  /\ opened = 0
  /\ markup \in Docs
  /\ lineWidth \in Widths
  /\ rendered = NoRender
  /\ paragraph = << >>
  /\ justified = NoJustified
  /\ renderer = NewRenderer(lineWidth)

RenderCall ==
  /\ ~rendered.called
  /\ rendered' = LET r == RenderToStyledTextWithHeadings(markup, lineWidth)
                 IN  [called |-> TRUE, Text |-> r.Text,
                      HeadingPositions |-> r.HeadingPositions, panic |-> r.panic]
  /\ UNCHANGED <<reader, file, currentView, running, opened, markup, lineWidth,
               paragraph, justified, renderer, library>>

SpecRender == InitRender /\ [][RenderCall]_vars

Returned == rendered.called /\ ~rendered.panic

\* C1: every offset in the returned HeadingPositions is a line index of the
\* returned Text: 0 <= offset < number of lines of Text.
C1_AnchorsAreLineIndexes ==
  Returned =>
    \A i \in DOMAIN rendered.HeadingPositions :
      /\ 0 <= rendered.HeadingPositions[i]
      /\ rendered.HeadingPositions[i] < LineCount(rendered.Text)

\* the length of the run of '#' a line starts with
RECURSIVE LeadingHashes(_)
LeadingHashes(line) ==
  IF line # << >> /\ Head(line) = HashChar THEN 1 + LeadingHashes(Tail(line)) ELSE 0

\* the 0-based indexes of the lines on which the text of an h2 or h3 starts:
\* the lines that start with the marker "##" or "###"
HeadingTextLines(text) ==
  LET lines == Split(text)
      acc[i \in 0..Len(lines)] ==
        IF i = 0 THEN << >>
        ELSE IF LeadingHashes(lines[i]) \in {2, 3} THEN Append(acc[i - 1], i - 1)
        ELSE acc[i - 1]
  IN  acc[Len(lines)]

\* C2: the anchor recorded for an h2/h3 is the index, within the returned
\* Text, of the line on which the heading's own text starts (stated for the
\* documents in which every h2/h3 has a line of its own starting with its
\* marker).
C2_AnchorsAtHeadingLines ==
  (Returned /\ Len(HeadingTextLines(rendered.Text)) = Len(rendered.HeadingPositions))
    => rendered.HeadingPositions = HeadingTextLines(rendered.Text)

\* C3: render is total: for every markup tree and every integer width the
\* call returns; it never hits a runtime failure.
C3_RenderIsTotal == rendered.called => ~rendered.panic

\* ------------------------------------------------------------------------
\* Navigation in the reader
\* ------------------------------------------------------------------------
\* what rendering chapter index of the open book at the viewport's width
\* yields: the text shown and the heading anchors
chapterRender(m, index) ==
  IF ~HasChapter(m.book, index) THEN [Text |-> << >>, HeadingPositions |-> << >>]
  ELSE LET w == IF m.viewport.Width <= 0 THEN DefaultWidth ELSE m.viewport.Width
       IN  IF Open(m.book).Format = FormatEPUB
           THEN LET r == renderChapter(GetChapter(m.book, index), w)
                IN  [Text |-> r.Text, HeadingPositions |-> r.HeadingPositions]
           ELSE [Text |-> wordwrapString(GetChapter(m.book, index), w),
                 HeadingPositions |-> << >>]

\* the position the reader shows: chapter index, line offset, anchor list
Position(m) == <<m.currentChapter, m.viewport.YOffset, m.headingPositions>>

NoAnchorAfter(m) ==
  \A i \in DOMAIN m.headingPositions : m.headingPositions[i] <= m.viewport.YOffset

NoAnchorBefore(m) ==
  \A i \in DOMAIN m.headingPositions : m.headingPositions[i] >= m.viewport.YOffset

HasNextChapter(m) == m.currentChapter < ChapterCount(m.book) - 1

HasPrevChapter(m) == m.currentChapter > 0

\* C4: nextHeading with no anchor greater than the offset: when a next
\* chapter exists the reader moves to chapter+1 at offset 0 with that
\* chapter's anchors; at the last chapter nothing changes.
C4_NextHeadingEntersNextChapter ==
  (InReader /\ NoAnchorAfter(reader)) =>
    LET r == nextHeading(reader)
    IN  IF HasNextChapter(reader)
        THEN /\ r.currentChapter = reader.currentChapter + 1
             /\ r.viewport.YOffset = 0
             /\ r.headingPositions =
                  chapterRender(reader, reader.currentChapter + 1).HeadingPositions
        ELSE r = reader

\* C4: the reader stands on or after the last anchor of a chapter that has
\* anchors and a successor, and nextHeading takes it to the next chapter.
C4_Witness ==
  /\ InReader
  /\ reader.viewport.Height > 0
  /\ reader.headingPositions # << >>
  /\ NoAnchorAfter(reader)
  /\ HasNextChapter(reader)
  /\ nextHeading(reader).currentChapter = reader.currentChapter + 1
  /\ nextHeading(reader).headingPositions # reader.headingPositions

\* the offset at which a viewport of the given height showing the text ends
\* up when asked to scroll to line n
scrolledTo(text, height, n) == max(0, min(n, max(0, LineCount(text) - height)))

C6_NextHeadingMakesProgress ==
  (InReader /\ HasChapter(reader.book, reader.currentChapter) /\ HasNextChapter(reader)) =>
    LET r == nextHeading(reader)
    IN  <<r.currentChapter, r.viewport.YOffset>> #
          <<reader.currentChapter, reader.viewport.YOffset>>

\* C7: nextChapter and prevChapter never wrap: at the last (first) chapter
\* they leave chapter index, offset and anchors unchanged; elsewhere the
\* index changes by exactly +1 (-1).
C7_ChapterStepsDoNotWrap ==
  InReader =>
    /\ IF HasNextChapter(reader)
       THEN nextChapter(reader).currentChapter = reader.currentChapter + 1
       ELSE Position(nextChapter(reader)) = Position(reader)
    /\ IF HasPrevChapter(reader)
       THEN prevChapter(reader).currentChapter = reader.currentChapter - 1
       ELSE Position(prevChapter(reader)) = Position(reader)

\* C7: the reader is scrolled down in the first chapter of a book with
\* several chapters: prevChapter leaves it there, nextChapter steps by one.
C7_Witness ==
  /\ InReader
  /\ reader.viewport.Height > 0
  /\ reader.currentChapter = 0
  /\ ChapterCount(reader.book) > 1
  /\ reader.viewport.YOffset > 0
  /\ reader.headingPositions # << >>
  /\ Position(prevChapter(reader)) = Position(reader)
  /\ nextChapter(reader).currentChapter = 1

\* the state a chapter-selecting operation must end in: offset 0 and the
\* anchors of the chapter it selected
AtTopOfChapter(m, r) ==
  /\ r.viewport.YOffset = 0
  /\ r.headingPositions = chapterRender(m, r.currentChapter).HeadingPositions

\* C8: nextChapter and prevChapter away from the boundary, firstChapter and
\* lastChapter end with offset 0 and the anchors obtained by rendering the
\* selected chapter; firstChapter selects 0 and lastChapter selects count-1.
C8_SelectingAChapterResetsTheView ==
  InReader =>
    /\ HasNextChapter(reader) => AtTopOfChapter(reader, nextChapter(reader))
    /\ HasPrevChapter(reader) => AtTopOfChapter(reader, prevChapter(reader))
    /\ AtTopOfChapter(reader, firstChapter(reader))
    /\ firstChapter(reader).currentChapter = 0
    /\ AtTopOfChapter(reader, lastChapter(reader))
    /\ lastChapter(reader).currentChapter = ChapterCount(reader.book) - 1

\* C10: opening a book whose stored chapter index is not below its chapter
\* count puts the reader at chapter 0 of that book.
C10_StaleChapterResolvesToFirst ==
  (running /\ currentView = ViewLibrary) =>
    \A path \in BookPaths :
      LET saved == GetBookProgress(reader.progress, path)
      IN  (saved.exists /\ saved.progress.CurrentChapter >= ChapterCount(path)) =>
            /\ LoadBook(reader, path).book = path
            /\ LoadBook(reader, path).currentChapter = 0

\* C10: a book with chapters is open at chapter 0 with the text of chapter 0
\* while its stored chapter index is not below its chapter count.
C10_Witness ==
  /\ InReader
  /\ reader.viewport.Height > 0
  /\ ChapterCount(reader.book) > 0
  /\ HasKey(reader.progress, reader.book)
  /\ reader.progress[reader.book].CurrentChapter >= ChapterCount(reader.book)
  /\ reader.currentChapter = 0
  /\ reader.viewport.lines = Split(chapterRender(reader, 0).Text)

\* ------------------------------------------------------------------------
\* The store used on its own: one ProgressData (reader.progress) and
\* progress.json (file)
\* ------------------------------------------------------------------------
StoreKeys == {PathA, PathT}

StoreChapters == {0, MaxStoredChapter}

StoreOffsets == {0, MaxStoredOffset}

InitStore ==
  /\ file = NoFile
  /\ reader = NewReaderModel(file)
  /\ library = NewLibraryModel(file)
  /\ currentView = ViewLibrary
  /\ running = TRUE
  /\ opened = 0
  /\ RenderIdle

CallSetBookProgress ==
  /\ \E k \in StoreKeys, c \in StoreChapters, o \in StoreOffsets :
       reader' = [reader EXCEPT !.progress = SetBookProgress(@, k, c, o)]
  /\ UNCHANGED <<file, currentView, running, opened, markup, lineWidth, rendered, paragraph, justified, renderer, library>>

CallSetBookFinished ==
  /\ \E k \in StoreKeys, f \in BOOLEAN :
       reader' = [reader EXCEPT !.progress = SetBookFinished(@, k, f)]
  /\ UNCHANGED <<file, currentView, running, opened, markup, lineWidth, rendered, paragraph, justified, renderer, library>>

CallSaveProgress ==
  /\ file' = SaveProgress(reader.progress)
  /\ UNCHANGED <<reader, currentView, running, opened, markup, lineWidth, rendered, paragraph, justified, renderer, library>>

CallLoadProgress ==
  /\ reader' = [reader EXCEPT !.progress = LoadProgress(file)]
  /\ UNCHANGED <<file, currentView, running, opened, markup, lineWidth, rendered, paragraph, justified, renderer, library>>

NextStore ==
  \/ CallSetBookProgress
  \/ CallSetBookFinished
  \/ CallSaveProgress
  \/ CallLoadProgress

SpecStore == InitStore /\ [][NextStore]_vars

\* the finished flag a book has in a ProgressData
FinishedFlag(p, k) == HasKey(p, k) /\ p[k].Finished

\* C9: saving a position (chapter, offset) for a book whose finished flag is
\* f and loading from disk returns exactly (chapter, offset, f) for that
\* book; the records of the other keys are as they were; a key that was
\* never saved loads as absent.
C9_SaveThenLoadRoundTrips ==
  /\ \A k \in StoreKeys, c \in StoreChapters, o \in StoreOffsets :
       LET p == SetBookProgress(reader.progress, k, c, o)
           q == LoadProgress(SaveProgress(p))
           got == GetBookProgress(q, k)
       IN  /\ got.exists
           /\ got.progress.CurrentChapter = c
           /\ got.progress.ScrollOffset = o
           /\ got.progress.Finished = FinishedFlag(reader.progress, k)
           /\ \A k2 \in StoreKeys \ {k} :
                GetBookProgress(q, k2) = GetBookProgress(reader.progress, k2)
  /\ \A k \in StoreKeys :
       ~HasKey(reader.progress, k) =>
         ~GetBookProgress(LoadProgress(SaveProgress(reader.progress)), k).exists

\* ------------------------------------------------------------------------
\* Opening books and persisting the position
\* ------------------------------------------------------------------------
\* C11: loading a book that has no stored record starts at chapter 0, line
\* offset 0, with the anchors of chapter 0, whatever the reader held for the
\* book loaded before.
C11_AbsentRecordStartsAtTop ==
  (running /\ currentView = ViewLibrary) =>
    \A path \in BookPaths :
      ~GetBookProgress(reader.progress, path).exists =>
        LET r == LoadBook(reader, path)
        IN  /\ r.currentChapter = 0
            /\ r.viewport.YOffset = 0
            /\ r.headingPositions = chapterRender(r, 0).HeadingPositions

\* the record progress.json holds for the open book is the reader's position
PersistedPosition(f, m) ==
  LET p == LoadProgress(f)
  IN  /\ HasKey(p, m.book)
      /\ p[m.book].CurrentChapter = m.currentChapter
      /\ p[m.book].ScrollOffset = m.viewport.YOffset

C13_FinishedIndependentOfPosition ==
  /\ \A k \in StoreKeys, f \in BOOLEAN :
       HasKey(reader.progress, k) =>
         LET q == SetBookFinished(reader.progress, k, f)
         IN  /\ q[k].CurrentChapter = reader.progress[k].CurrentChapter
             /\ q[k].ScrollOffset = reader.progress[k].ScrollOffset
  /\ \A k \in StoreKeys, c \in StoreChapters, o \in StoreOffsets :
       FinishedFlag(SetBookProgress(reader.progress, k, c, o), k)
         = FinishedFlag(reader.progress, k)

\* ------------------------------------------------------------------------
\* The anchor list of RenderWithHeadings
\* ------------------------------------------------------------------------
StrictlyIncreasing(positions) ==
  \A i, j \in DOMAIN positions : i < j => positions[i] < positions[j]

\* C14: the HeadingPositions list returned by RenderWithHeadings is strictly
\* increasing (no duplicates, document order), also for adjacent or empty
\* h2/h3 headings.
C14_AnchorsStrictlyIncrease ==
  LET r == RenderWithHeadings(markup, lineWidth)
  IN  ~r.panic => StrictlyIncreasing(r.HeadingPositions)

\* C14: a document that starts with an empty h2 directly followed by another
\* h2/h3 has been rendered and has two anchors.
C14_Witness ==
  /\ rendered.called
  /\ Len(markup) = 2
  /\ markup[1] = Element("h2", << >>)
  /\ ~RenderWithHeadings(markup, lineWidth).panic
  /\ Len(RenderWithHeadings(markup, lineWidth).HeadingPositions) = 2

RECURSIVE VisitedAnchorElements(_, _)
\* the number of h2/h3 elements the renderer visits in kids[i..]: every
\* element of the tree (br and hr have no children)
VisitedAnchorElements(kids, i) ==
  IF i > Len(kids) THEN 0
  ELSE (IF kids[i].type = "elem" /\ kids[i].tag \in {"h2", "h3"} THEN 1 ELSE 0)
       + (IF kids[i].type = "elem" /\ kids[i].tag \notin {"br", "hr"}
          THEN VisitedAnchorElements(kids[i].kids, 1) ELSE 0)
       + VisitedAnchorElements(kids, i + 1)

\* C15: an anchor is recorded for an element if and only if it is an h2 or
\* h3: the number of anchors equals the number of h2/h3 elements visited;
\* h1 and h4..h6 never add one.
C15_AnchorsOnlyForH2H3 ==
  LET r == RenderWithHeadings(markup, lineWidth)
  IN  ~r.panic => Len(r.HeadingPositions) = VisitedAnchorElements(markup, 1)

\* C15: a document made of an h2 followed by an h1 or h4 has been rendered
\* and has exactly one anchor.
C15_Witness ==
  /\ rendered.called
  /\ Len(markup) = 2
  /\ markup[1].tag = "h2"
  /\ markup[2].tag \in {"h1", "h4"}
  /\ ~RenderWithHeadings(markup, lineWidth).panic
  /\ Len(RenderWithHeadings(markup, lineWidth).HeadingPositions) = 1

\* the line offsets the viewport allows for the text it shows
InBounds(vp) == 0 <= vp.YOffset /\ vp.YOffset <= max(0, Len(vp.lines) - vp.Height)

\* the reader's scroll operations
ScrollResults(m) ==
  {halfPageDown(m), halfPageUp(m), scrollDown(m), scrollUp(m), pageDown(m)}

\* C16: scroll up/down and half page up/down only move the line offset,
\* within the bounds of the rendered current chapter: the chapter index and
\* the anchor list stay as they were, the text shown is still the render of
\* the current chapter, and 0 <= offset <= max(0, lines - viewport height).
C16_ScrollStaysInChapter ==
  InReader =>
    \A r \in ScrollResults(reader) :
      /\ r.currentChapter = reader.currentChapter
      /\ r.headingPositions = reader.headingPositions
      /\ r.book = reader.book
      /\ InBounds(r.viewport)
      /\ HasChapter(reader.book, reader.currentChapter) =>
            r.viewport.lines = Split(chapterRender(reader, reader.currentChapter).Text)

\* ------------------------------------------------------------------------
\* justifyText called on its own
\* ------------------------------------------------------------------------
MaxWords == 3
MaxLines == 2
MaxJustifyWidth == 8

\* the texts justifyText is given: up to MaxLines lines, each empty or up to
\* MaxWords words (a one-byte word, a word with a two-byte character) with
\* one or two spaces between them
Paragraphs ==
  LET words == {<<"x">>, <<"x", TwoByteChar>>}
      gaps == {<<SP>>, <<SP, SP>>}
      lines == {<<>>} \cup {Join(ws, g) : ws \in SeqsUpTo(words, MaxWords) \ {<<>>},
                                          g \in gaps}
  IN  {Join(ls, <<NL>>) : ls \in SeqsUpTo(lines, MaxLines) \ {<<>>}}

JustifyWidths == {-1, 0} \cup 3..MaxJustifyWidth

InitJustify ==
  /\ file = NoFile
  /\ reader = NewReaderModel(file)
  /\ library = NewLibraryModel(file)
  /\ currentView = ViewLibrary
  /\ running = TRUE
  /\ opened = 0
  /\ markup = << >>
  /\ rendered = NoRender
  /\ paragraph \in Paragraphs
  /\ lineWidth \in JustifyWidths
  /\ justified = NoJustified
  /\ renderer = NewRenderer(0)

JustifyCall ==
  /\ ~justified.called
  /\ justified' = [called |-> TRUE, Text |-> justifyText(paragraph, lineWidth)]
  /\ UNCHANGED <<reader, file, currentView, running, opened, markup, lineWidth,
                 rendered, paragraph, renderer, library>>

SpecJustify == InitJustify /\ [][JustifyCall]_vars

\* the loop reaches the code that distributes the spaces (renderer.go 393-409)
justifies(rawLine, isLastLine, nLines, width) ==
  LET line == TrimSpace(rawLine)
      words == Fields(line)
      totalSpaces == width - SumLen(words)
      gaps == Len(words) - 1
  IN  /\ line # <<>>
      /\ ~keepsLine(isLastLine, nLines, Len(words), len(line), width)
      /\ ~(gaps <= 0 \/ totalSpaces < gaps)

\* line i of the text justifyText(paragraph, lineWidth) returns
JustifiedLineAt(i) == Split(justifyText(paragraph, lineWidth))[i]

\* C17: a line justifyText justifies comes out with the same words in the
\* same order, separated by nothing but spaces, and is exactly width
\* characters long.
C17_JustifiedLineFillsWidth ==
  LET lines == Split(paragraph)
  IN  \A i \in DOMAIN lines :
        justifies(lines[i], i = Len(lines), Len(lines), lineWidth) =>
          /\ Fields(JustifiedLineAt(i)) = Fields(lines[i])
          /\ Len(JustifiedLineAt(i)) - Count(JustifiedLineAt(i), SP)
               = Len(lines[i]) - Count(lines[i], SP)
          /\ Len(JustifiedLineAt(i)) = lineWidth

\* C18: justifyText does not justify the last line of a block, the only
\* line of a one-line block, or a line of at most one word: for every width
\* such a line comes out as it went in (trimmed), words and the spaces
\* between them unchanged.
C18_LastAndShortLinesKept ==
  LET lines == Split(paragraph)
  IN  \A i \in DOMAIN lines :
        (i = Len(lines) \/ Len(lines) = 1 \/ Len(Fields(lines[i])) <= 1) =>
          /\ JustifiedLineAt(i) = TrimSpace(lines[i])
          /\ Fields(JustifiedLineAt(i)) = Fields(lines[i])

\* C18: justifyText returned a two-line block whose first line it spread
\* out and whose last line, long enough and with room to be justified were
\* it not the last, came out unchanged.
C18_Witness ==
  /\ justified.called
  /\ Len(Split(paragraph)) = 2
  /\ justifies(Split(paragraph)[1], FALSE, 2, lineWidth)
  /\ Split(justified.Text)[1] # Split(paragraph)[1]
  /\ justifies(Split(paragraph)[2], FALSE, 2, lineWidth)
  /\ Len(Split(paragraph)[2]) < lineWidth
  /\ Split(justified.Text)[2] = Split(paragraph)[2]

\* C19: justifyText leaves a line unchanged whenever its trimmed length is
\* less than 0.75 x width (4 x length < 3 x width, the length in bytes as
\* the code measures it), for every integer width.
C19_ShortLinesKept ==
  LET lines == Split(paragraph)
  IN  \A i \in DOMAIN lines :
        4 * len(TrimSpace(lines[i])) < 3 * lineWidth =>
          JustifiedLineAt(i) = TrimSpace(lines[i])

\* C20: a line width <= 0 is treated as 80: for every markup input and every
\* width <= 0, RenderToStyledTextWithHeadings returns the text and the
\* anchors it returns for width 80.
C20_NonPositiveWidthIsDefault ==
  lineWidth <= 0 =>
    LET r == RenderToStyledTextWithHeadings(markup, lineWidth)
        d == RenderToStyledTextWithHeadings(markup, DefaultWidth)
    IN  /\ r.panic = d.panic
        /\ r.Text = d.Text
        /\ r.HeadingPositions = d.HeadingPositions

\* C21: when the structured render is blank, RenderToStyledTextWithHeadings
\* returns the plain-text extraction with no anchors, whatever h2/h3 elements
\* were visited; a non-empty anchor list is returned only together with the
\* non-blank structured text.
C21_BlankRenderFallsBackWithoutAnchors ==
  LET holds(s, r) ==
        ~s.panic =>
          /\ TrimSpace(s.Text) = <<>> =>
                /\ r.Text = htmlToText(HtmlSourceAll(markup, 1))
                /\ r.HeadingPositions = <<>>
          /\ r.HeadingPositions # <<>> =>
                /\ TrimSpace(s.Text) # <<>>
                /\ r.Text = s.Text
                /\ r.HeadingPositions = s.HeadingPositions
  IN  holds(RenderWithHeadings(markup, lineWidth),
            RenderToStyledTextWithHeadings(markup, lineWidth))

\* C21: the render returned for markup whose structured render is blank
\* although it recorded an anchor: the result has no anchors.
C21_Witness ==
  LET blankWithAnchor(s) ==
        ~s.panic /\ TrimSpace(s.Text) = <<>> /\ s.HeadingPositions # <<>>
  IN  /\ rendered.called
      /\ ~rendered.panic
      /\ blankWithAnchor(RenderWithHeadings(markup, lineWidth))
      /\ rendered.HeadingPositions = <<>>

\* ------------------------------------------------------------------------
\* One Renderer instance used for several Render / RenderWithHeadings calls
\* ------------------------------------------------------------------------
MaxHeldAnchors == 3

\* the documents handed to the instance
ReuseDocs ==
  {<<a>> : a \in FirstNodes} \cup {<<a, b>> : a, b \in FirstNodes}

InitRenderer ==
  /\ file = NoFile
  /\ reader = NewReaderModel(file)
  /\ library = NewLibraryModel(file)
  /\ currentView = ViewLibrary
  /\ running = TRUE
  /\ opened = 0
  /\ markup = << >>
  /\ lineWidth \in Widths
  /\ rendered = NoRender
  /\ paragraph = << >>
  /\ justified = NoJustified
  /\ renderer = NewRenderer(lineWidth)

\* r.RenderWithHeadings(doc); a panic ends the program
CallRenderWithHeadings ==
  /\ ~rendered.panic
  /\ \E doc \in ReuseDocs :
       LET call(res) ==
             /\ markup' = doc
             /\ renderer' = res.renderer
             /\ rendered' = [called |-> TRUE, Text |-> res.Text,
                             HeadingPositions |-> res.HeadingPositions,
                             panic |-> res.panic]
       IN  call(RendererRenderWithHeadings(renderer, doc))
  /\ UNCHANGED <<reader, file, currentView, running, opened, lineWidth, paragraph,
                 justified, library>>

\* r.Render(doc)
CallRender ==
  /\ ~rendered.panic
  /\ Len(renderer.headingPositions) < MaxHeldAnchors
  /\ \E doc \in ReuseDocs :
       LET call(res) ==
             /\ markup' = doc
             /\ renderer' = res.renderer
             /\ rendered' = [called |-> TRUE, Text |-> res.Text,
                             HeadingPositions |-> res.HeadingPositions,
                             panic |-> res.panic]
       IN  call(RendererRender(renderer, doc))
  /\ UNCHANGED <<reader, file, currentView, running, opened, lineWidth, paragraph,
                 justified, library>>

NextRenderer ==
  \/ CallRenderWithHeadings
  \/ CallRender

SpecRenderer == InitRenderer /\ [][NextRenderer]_vars

\* C22: render is deterministic, also on an instance used before: whatever
\* calls the Renderer has served, RenderWithHeadings returns the text and the
\* anchors, and Render the text, that a new Renderer of the same width
\* returns for the same markup; no anchor of an earlier call is in a result.
C22_RenderIsDeterministic ==
  \A doc \in ReuseDocs :
    LET same(fresh, again, text) ==
          /\ again.panic = fresh.panic
          /\ text.panic = fresh.panic
          /\ ~fresh.panic =>
                /\ again.Text = fresh.Text
                /\ again.HeadingPositions = fresh.HeadingPositions
                /\ text.Text = fresh.Text
    IN  same(RenderWithHeadings(doc, renderer.width),
             RendererRenderWithHeadings(renderer, doc),
             RendererRender(renderer, doc))

\* C22: Render was called on an instance that held anchors of an earlier
\* call (it now holds more anchors than the document has) and returned the
\* text a new Renderer returns for the document.
C22_Witness ==
  /\ rendered.called
  /\ ~rendered.panic
  /\ rendered.HeadingPositions = << >>
  /\ Len(renderer.headingPositions)
       > Len(RenderWithHeadings(markup, renderer.width).HeadingPositions)
  /\ RenderWithHeadings(markup, renderer.width).HeadingPositions # << >>
  /\ rendered.Text = RenderWithHeadings(markup, renderer.width).Text

\* C23: nextHeading with an anchor greater than the offset moves the offset
\* to the smallest such anchor, prevHeading with an anchor less than the
\* offset to the largest such anchor; chapter index and anchor list stay as
\* they were, and the anchor reached is never the offset the reader was at.
C23_HeadingStepsWithinChapter ==
  InReader =>
    /\ ~NoAnchorAfter(reader) =>
          LET target == SetMin({reader.headingPositions[i] : i \in
                                 {j \in DOMAIN reader.headingPositions :
                                    reader.headingPositions[j] > reader.viewport.YOffset}})
          IN  /\ nextHeading(reader).viewport.YOffset = target
              /\ target # reader.viewport.YOffset
              /\ nextHeading(reader).currentChapter = reader.currentChapter
              /\ nextHeading(reader).headingPositions = reader.headingPositions
    /\ ~NoAnchorBefore(reader) =>
          LET target == SetMax({reader.headingPositions[i] : i \in
                                 {j \in DOMAIN reader.headingPositions :
                                    reader.headingPositions[j] < reader.viewport.YOffset}})
          IN  /\ prevHeading(reader).viewport.YOffset = target
              /\ target # reader.viewport.YOffset
              /\ prevHeading(reader).currentChapter = reader.currentChapter
              /\ prevHeading(reader).headingPositions = reader.headingPositions

\* C24: the style context is copied on descent: what an element and its
\* subtree do to the context is not seen by the nodes that follow it, so the
\* output written for two siblings is the output written for the first
\* followed by the output the second gets on its own under the same
\* ancestors.
C24_ContextIsCopiedOnDescent ==
  Len(markup) = 2 =>
    LET walk(kids) == renderChildren(kids, 1, NewRenderState, renderContext, lineWidth)
        composed(both, first, second) ==
          ~both.panic => both.out = first.out \o second.out
    IN  composed(walk(markup), walk(<<markup[1]>>), walk(<<markup[2]>>))

\* C24: a render returned for an h2 with text followed by a text node: the
\* text after the heading is written as body text, without a heading marker.
C24_Witness ==
  /\ rendered.called
  /\ ~rendered.panic
  /\ Len(markup) = 2
  /\ markup[1] = Element("h2", <<TextNode(X1)>>)
  /\ markup[2] = TextNode(X2)
  /\ LeadingHashes(Split(rendered.Text)[1]) = 2
  /\ LeadingHashes(Split(rendered.Text)[Len(Split(rendered.Text))]) = 0

\* C25: justifyText is idempotent: justifying its own result with the same
\* width returns that result.
C25_JustifyIsIdempotent ==
  LET again(once) == justifyText(once, lineWidth) = once
  IN  again(justifyText(paragraph, lineWidth))

\* C25: justifyText returned a block in which it spread out a line, and
\* justifying the returned block again changes nothing.
C25_Witness ==
  /\ justified.called
  /\ Len(Split(paragraph)) > 1
  /\ justified.Text # paragraph
  /\ \E i \in DOMAIN Split(paragraph) :
       justifies(Split(paragraph)[i], i = Len(Split(paragraph)), Len(Split(paragraph)),
                 lineWidth)
  /\ justifyText(justified.Text, lineWidth) = justified.Text

\* C26: whenever the reader has a book loaded, 0 <= currentChapter <
\* ChapterCount, whatever record was stored for the book and whatever
\* chapter and heading steps were taken.
C26_CurrentChapterInRange ==
  reader.book # NoBook =>
    /\ 0 <= reader.currentChapter
    /\ reader.currentChapter < ChapterCount(reader.book)

\* C27: whenever the reader has a book loaded, its anchors and the text it
\* shows are those of rendering chapter currentChapter of that book at the
\* current width; nothing is left over from another chapter or book (where
\* the book has no such chapter, no anchors and no text).
C27_ViewShowsCurrentChapter ==
  reader.book # NoBook =>
    IF HasChapter(reader.book, reader.currentChapter)
    THEN /\ reader.headingPositions =
              chapterRender(reader, reader.currentChapter).HeadingPositions
         /\ reader.viewport.lines =
              Split(chapterRender(reader, reader.currentChapter).Text)
    ELSE /\ reader.headingPositions = << >>
         /\ \A i \in DOMAIN reader.viewport.lines : reader.viewport.lines[i] = << >>

\* ------------------------------------------------------------------------
\* The library view and the reader view, each with its own ProgressData,
\* writing the same progress.json
\* ------------------------------------------------------------------------
MaxLoading == 2

\* NewModel and Model.Init: the first loadBooks is under way
InitLibrary ==
  /\ file = NoFile
  /\ reader = NewReaderModel(file)
  /\ library = [NewLibraryModel(file) EXCEPT !.loading = 1]
  /\ currentView = ViewLibrary
  /\ running = TRUE
  /\ opened = 0
  /\ RenderIdle

\* Model.Update, BooksLoadedMsg: routed to the view that is shown; the reader
\* ignores it
BooksLoadedMsg ==
  /\ running
  /\ library.loading > 0
  /\ library' = IF currentView = ViewLibrary THEN booksLoaded(library)
                ELSE [library EXCEPT !.loading = @ - 1]
  /\ UNCHANGED <<reader, file, currentView, running, opened, markup, lineWidth, rendered,
                 paragraph, justified, renderer>>

\* LibraryModel.Update, key "f"
KeyToggleFinished ==
  /\ running
  /\ currentView = ViewLibrary
  /\ library.loading < MaxLoading
  /\ \E path \in DOMAIN library.items :
       /\ library' = toggleFinished(library, path)
       /\ file' = SaveProgress(toggleFinished(library, path).progress)
  /\ UNCHANGED <<reader, currentView, running, opened, markup, lineWidth, rendered,
                 paragraph, justified, renderer>>

NextLibrary ==
  \/ BooksLoadedMsg
  \/ KeyToggleFinished
  \/ BookSelectedMsg
  \/ KeyNextChapter
  \/ KeyBack
  \/ KeyQuit

SpecLibrary == InitLibrary /\ [][NextLibrary]_vars

\* C28: the two views do not lose each other's persisted updates: a save
\* from the library (toggling finished on any book) leaves chapter and
\* offset of every record of progress.json in place, and a save from the
\* reader leaves the finished flag of every record in place.
C28_ViewsKeepEachOthersUpdates ==
  LET stored == LoadProgress(file)
  IN  /\ (running /\ currentView = ViewLibrary) =>
            \A path \in DOMAIN library.items :
              LET after == LoadProgress(SaveProgress(toggleFinished(library, path).progress))
              IN  \A b \in DOMAIN stored :
                    /\ HasKey(after, b)
                    /\ after[b].CurrentChapter = stored[b].CurrentChapter
                    /\ after[b].ScrollOffset = stored[b].ScrollOffset
      /\ InReader =>
            LET after == LoadProgress(SaveProgress(savedProgress(reader)))
            IN  \A b \in DOMAIN stored \ {reader.book} :
                  /\ HasKey(after, b)
                  /\ after[b].Finished = stored[b].Finished

\* C29: a press of "f" in the library inverts the finished flag the selected
\* book has in the progress data, whether or not the reload started by an
\* earlier press has arrived.
C29_ToggleInvertsTheFlag ==
  (running /\ currentView = ViewLibrary) =>
    \A path \in DOMAIN library.items :
      LET flag(p) == HasKey(p, path) /\ p[path].Finished
      IN  flag(toggleFinished(library, path).progress) = ~flag(library.progress)

\* C30: a window resize while a book is open leaves the current chapter index
\* and the current line offset of the reader unchanged, so a position that
\* LoadBook restored is still the reader's position after the resize.
C30_ResizeKeepsPosition ==
  InReader =>
    \A w \in WindowWidths, h \in WindowHeights :
      LET resized == SetSize(reader, w, h)
      IN  /\ resized.currentChapter = reader.currentChapter
          /\ resized.viewport.YOffset = reader.viewport.YOffset
====
